---- MODULE Spec2Model ----
(***************************************************************************)
(* validate_distinct_investors.py: one pass over a directory of JSON       *)
(* files of investor records, filtered by country, accumulating two        *)
(* identity sets and two cross-reference maps, followed by a report.       *)
(*                                                                         *)
(* Python values are modelled as strings.  None stands for Python's None   *)
(* (a missing key and JSON null both read as None through dict.get), Zero  *)
(* for the integer 0 and "" for the empty string; every other value of     *)
(* the model is a non-empty JSON string.                                   *)
(***************************************************************************)
EXTENDS Integers, Sequences, FiniteSets, TLC

\* ---------------------------------------------------------------- bounds
\* Entries os.listdir may return in one run.
MaxFiles == 3
\* Elements the files of one run may hold in total.
MaxElements == 4

\* ---------------------------------------------------------------- values
None == "None"
Zero == "int:0"
DefaultFolder == "./src/seed/ibra/"

\* Python truth value of a scalar: None, 0 and "" are false.
Truthy(v) == v \notin {None, Zero, ""}

\* Python's `a or b`.
Or(a, b) == IF Truthy(a) THEN a ELSE b

\* The order Python's sorted() gives the strings of the model (code points:
\* digits before letters).
SortOrder == <<"1", "2", "3", "Alice", "Bob">>

Rank(v) == CHOOSE i \in 1..Len(SortOrder) : SortOrder[i] = v

RECURSIVE Sorted(_)
Sorted(S) ==
  IF S = {} THEN <<>>
  ELSE LET m == CHOOSE x \in S : \A y \in S : Rank(x) <= Rank(y)
       IN <<m>> \o Sorted(S \ {m})

\* ---------------------------------------------------------------- inputs
IdValues == {None, Zero, "1", "2", "3"}
NameValues == {None, "Alice", "Bob"}
TitleValues == {None, "Vietnam", "vietnam"}

\* The value of a record's "country" key: absent or null (kind "none"), or an
\* object whose "title" key reads as title (None when the key is absent).
CountryValues ==
  {[kind |-> "none", title |-> None]} \cup
  {[kind |-> "object", title |-> t] : t \in TitleValues}

\* The elements iteration can yield: JSON objects with the three keys of
\* interest, and one element that is no object (a string or a number).
ObjectRecords ==
  {[obj |-> TRUE, country |-> c, id |-> i, name |-> n] :
     c \in CountryValues, i \in IdValues, n \in NameValues}

ScalarElement ==
  [obj |-> FALSE, country |-> [kind |-> "none", title |-> None],
   id |-> None, name |-> None]

\* Top-level JSON values json.load can return.
TopKinds == {"array", "object", "string", "number", "null"}

\* Command lines: the script name alone, or followed by the country name
\* (the folder argument only selects the directory and is left at its default).
ArgvValues ==
  { <<"validate_distinct_investors.py">>,
    <<"validate_distinct_investors.py", "Vietnam">> }

\* ----------------------------------------------------------------- state
VARIABLES
  pc,             \* control point of the script
  argv,           \* sys.argv
  country_arg,    \* sys.argv[1]
  FOLDER_PATH,    \* sys.argv[2] or the default
  listed,         \* entries of os.listdir already taken by the for loop
  entry,          \* what the current entry turned out to be: "not_json",
                  \* "malformed" or "parsed" ("none" before the first)
  data,           \* kind of the value json.load returned for the current
                  \* file ("none" outside the loop over it)
  taken,          \* elements the inner loop has taken so far, over all files
  country,        \* line 35: the title read from the current element
  inv_id,         \* line 39
  name,           \* line 40
  names,          \* set B
  ids_or_names,   \* set A
  name_to_ids,    \* insertion-ordered dict: name -> set of ids
  id_to_names,    \* insertion-ordered dict: id -> set of names
  no_name_has_id, \* orphan-id list
  stdout,         \* lines printed
  exitcode,       \* process exit status, -1 while running
  error,          \* uncaught exception that ended the run, "" if none
  matched         \* history: the records handled so far whose country
                  \* title is the target

locals == <<country, inv_id, name>>

accs == <<names, ids_or_names, name_to_ids, id_to_names, no_name_has_id>>

vars == <<pc, argv, country_arg, FOLDER_PATH, listed, entry, data, taken,
          country, inv_id, name, names, ids_or_names, name_to_ids, id_to_names, no_name_has_id,
          stdout, exitcode, error, matched>>

NoData == "none"

\* ------------------------------------------------ insertion-ordered dicts
\* A defaultdict(set) is a sequence of [k, v] entries in insertion order.
Keys(d) == {d[j].k : j \in DOMAIN d}

\* d[k] without creating the entry: the empty set for a key not in d.
Lookup(d, k) == UNION {d[j].v : j \in {m \in DOMAIN d : d[m].k = k}}

\* Faulty variant of DictAdd: d[k] = {x}, dropping what the key held.
DictAddOverwrite(d, k, x) ==
  IF k \in Keys(d)
  THEN [j \in DOMAIN d |-> IF d[j].k = k THEN [k |-> k, v |-> {x}] ELSE d[j]]
  ELSE Append(d, [k |-> k, v |-> {x}])

\* d[k].add(x): creates the entry at the end when k is new.
DictAdd(d, k, x) ==
  IF k \in Keys(d)
  THEN [j \in DOMAIN d |->
          IF d[j].k = k THEN [k |-> k, v |-> d[j].v \cup {x}] ELSE d[j]]
  ELSE Append(d, [k |-> k, v |-> {x}])

\* --------------------------------------------------------------- startup
Init ==
  /\ pc = "args"
  /\ argv \in ArgvValues
  /\ country_arg = None
  /\ FOLDER_PATH = None
  /\ listed = 0
  /\ entry = "none"
  /\ data = NoData
  /\ taken = 0
  /\ country = None
  /\ inv_id = None
  /\ name = None
  /\ names = {}
  /\ ids_or_names = {}
  /\ name_to_ids = <<>>
  /\ id_to_names = <<>>
  /\ no_name_has_id = <<>>
  /\ stdout = <<>>
  /\ exitcode = -1
  /\ error = ""
  /\ matched = {}

Line(kind, key, vals, n) == [kind |-> kind, key |-> key, vals |-> vals, n |-> n]

\* Lines 11-13: no country name.
UsageExit ==
  /\ pc = "args"
  /\ Len(argv) < 2
  /\ stdout' = Append(stdout, Line("usage", "", <<>>, 0))
  /\ exitcode' = 1
  /\ pc' = "exited"
  /\ UNCHANGED <<argv, country_arg, FOLDER_PATH, listed, entry, data, taken, locals, accs,
                 error, matched>>

\* Lines 15-23: arguments read, accumulators created.
ReadArgs ==
  /\ pc = "args"
  /\ Len(argv) >= 2
  /\ country_arg' = argv[2]
  /\ FOLDER_PATH' = IF Len(argv) > 2 THEN argv[3] ELSE DefaultFolder
  /\ names' = {}
  /\ ids_or_names' = {}
  /\ name_to_ids' = <<>>
  /\ id_to_names' = <<>>
  /\ no_name_has_id' = <<>>
  /\ pc' = "listdir"
  /\ UNCHANGED <<argv, listed, entry, data, taken, locals, stdout, exitcode, error, matched>>

Crash(exc) ==
  /\ pc' = "crashed"
  /\ error' = exc
  /\ exitcode' = 1

\* Line 25: os.listdir raises when the directory cannot be read.
ListDirFails ==
  /\ pc = "listdir"
  /\ Crash("OSError")
  /\ UNCHANGED <<argv, country_arg, FOLDER_PATH, listed, entry, data, taken, locals, accs,
                 stdout, matched>>

\* Line 25: os.listdir returns the entries.
ListDir ==
  /\ pc = "listdir"
  /\ pc' = "files"
  /\ UNCHANGED <<argv, country_arg, FOLDER_PATH, listed, entry, data, taken, locals, accs,
                 stdout, exitcode, error, matched>>

\* ------------------------------------------------------- file ingestion
\* Lines 25-27: an entry whose name does not end with ".json".
SkipNotJson ==
  /\ pc = "files"
  /\ listed < MaxFiles
  /\ listed' = listed + 1
  /\ entry' = "not_json"
  /\ UNCHANGED <<pc, argv, country_arg, FOLDER_PATH, data, taken, locals, accs,
                 stdout, exitcode, error, matched>>

\* Faulty variant of SkipMalformed: the JSONDecodeError is not caught.
MalformedAborts ==
  /\ pc = "files"
  /\ listed < MaxFiles
  /\ listed' = listed + 1
  /\ entry' = "malformed"
  /\ Crash("JSONDecodeError")
  /\ UNCHANGED <<argv, country_arg, FOLDER_PATH, data, taken, locals, accs,
                 stdout, matched>>

\* Lines 28-32: json.load raises JSONDecodeError; the file is skipped.
SkipMalformed ==
  /\ pc = "files"
  /\ listed < MaxFiles
  /\ listed' = listed + 1
  /\ entry' = "malformed"
  /\ UNCHANGED <<pc, argv, country_arg, FOLDER_PATH, data, taken, locals, accs,
                 stdout, exitcode, error, matched>>

\* Lines 28-30: json.load returns a value of some kind.
LoadFile ==
  /\ pc = "files"
  /\ listed < MaxFiles
  /\ listed' = listed + 1
  /\ entry' = "parsed"
  /\ data' \in TopKinds
  /\ pc' = "records"
  /\ UNCHANGED <<argv, country_arg, FOLDER_PATH, taken, locals, accs, stdout,
                 exitcode, error, matched>>

\* Line 34: iter(data) raises TypeError for a number or null.
IterateFails ==
  /\ pc = "records"
  /\ data \in {"number", "null"}
  /\ Crash("TypeError")
  /\ UNCHANGED <<argv, country_arg, FOLDER_PATH, listed, entry, data, taken, locals, accs,
                 stdout, matched>>

\* Line 34: what iteration can yield next: a record for an array (the input
\* format is an array of objects), a string (a key, a character) for an
\* object or a string.
Elements(d) ==
  IF d = "array" THEN ObjectRecords
  ELSE {ScalarElement}

\* Line 34: the loop over data is exhausted (at once for [], {} and "").
\* data and the record locals are dead from here on (each is assigned again
\* before it is next read), so the model clears them.
EndOfData ==
  /\ pc = "records"
  /\ data \in {"array", "object", "string"}
  /\ pc' = "files"
  /\ data' = NoData
  /\ country' = None
  /\ inv_id' = None
  /\ name' = None
  /\ UNCHANGED <<argv, country_arg, FOLDER_PATH, listed, entry, taken, accs,
                 stdout, exitcode, error, matched>>

\* ----------------------------------------------------------- aggregation
\* Line 35: (inv.get("country") or {}).get("title")
CountryTitle(r) == IF r.country.kind = "object" THEN r.country.title ELSE None

\* str.lower() on the titles of the model.
Lower(v) == IF v = "Vietnam" THEN "vietnam" ELSE v

\* Faulty variant of Skipped: the comparison ignores case.
SkippedIgnoringCase(r, target) == Lower(CountryTitle(r)) # Lower(target)

\* Line 36: country != country_arg
Skipped(r, target) == CountryTitle(r) # target

\* Lines 43-44: Script B.
AddName(B, r) == IF Truthy(r.name) THEN B \cup {r.name} ELSE B

\* Faulty variant of UniqueId: name or inv_id.
UniqueIdNameFirst(r) == Or(r.name, r.id)

\* Line 47: unique_id = inv_id or name
UniqueId(r) == Or(r.id, r.name)

\* Faulty variant of AddUniqueId: only ids are counted.
AddUniqueIdOnlyId(A, r) == IF Truthy(r.id) THEN A \cup {r.id} ELSE A

\* Lines 48-49: Script A.
AddUniqueId(A, r) == IF Truthy(UniqueId(r)) THEN A \cup {UniqueId(r)} ELSE A

\* Lines 52-53.
AddNameToIds(d, r) ==
  IF Truthy(r.name) /\ Truthy(r.id) THEN DictAdd(d, r.name, r.id) ELSE d

\* Faulty variant of AddIdToNames: an id keeps the first name seen with it.
AddIdToNamesFirstOnly(d, r) ==
  IF Truthy(r.name) /\ Truthy(r.id) /\ r.id \notin Keys(d)
  THEN DictAdd(d, r.id, r.name) ELSE d

\* Lines 52, 54.
AddIdToNames(d, r) ==
  IF Truthy(r.name) /\ Truthy(r.id) THEN DictAdd(d, r.id, r.name) ELSE d

\* Lines 55-56.
AddOrphan(l, r) ==
  IF (~Truthy(r.name)) /\ Truthy(r.id) THEN Append(l, r.id) ELSE l

\* History only: the record's country object carries the target as its title.
TitleIsTarget(r, target) ==
  r.obj /\ r.country.kind = "object" /\ r.country.title = target

\* Line 35 on an element that is no object: str has no attribute get.
ElementFails ==
  /\ pc = "records"
  /\ data \in {"array", "object", "string"}
  /\ taken < MaxElements
  /\ \E r \in Elements(data) :
       /\ ~r.obj
  /\ taken' = taken + 1
  /\ Crash("AttributeError")
  /\ UNCHANGED <<argv, country_arg, FOLDER_PATH, listed, entry, data, locals,
                 accs, stdout, matched>>

\* Lines 34-37: a record of another country.
SkipRecord ==
  /\ pc = "records"
  /\ data \in {"array", "object", "string"}
  /\ taken < MaxElements
  /\ \E r \in Elements(data) :
       /\ r.obj
       /\ Skipped(r, country_arg)
       /\ country' = CountryTitle(r)
       /\ matched' = IF TitleIsTarget(r, country_arg)
                     THEN matched \cup {r} ELSE matched
  /\ taken' = taken + 1
  /\ UNCHANGED <<pc, argv, country_arg, FOLDER_PATH, listed, entry, data,
                 inv_id, name, accs, stdout, exitcode, error>>

\* Lines 34-56: a record of the target country.
ProcessRecord ==
  /\ pc = "records"
  /\ data \in {"array", "object", "string"}
  /\ taken < MaxElements
  /\ \E r \in Elements(data) :
       /\ r.obj
       /\ ~Skipped(r, country_arg)
       /\ country' = CountryTitle(r)
       /\ inv_id' = r.id
       /\ name' = r.name
       /\ names' = AddName(names, r)
       /\ ids_or_names' = AddUniqueId(ids_or_names, r)
       /\ name_to_ids' = AddNameToIds(name_to_ids, r)
       /\ id_to_names' = AddIdToNames(id_to_names, r)
       /\ no_name_has_id' = AddOrphan(no_name_has_id, r)
       /\ matched' = IF TitleIsTarget(r, country_arg)
                     THEN matched \cup {r} ELSE matched
  /\ taken' = taken + 1
  /\ UNCHANGED <<pc, argv, country_arg, FOLDER_PATH, listed, entry, data, stdout,
                 exitcode, error>>

\* ------------------------------------------------------------- reporting
Range(s) == {s[j] : j \in DOMAIN s}

\* Lines 63-65 and 68-70: one line per entry holding more than one value,
\* in the dict's iteration order, the values sorted.
Listing(kind, d) ==
  LET many == SelectSeq(d, LAMBDA e : Cardinality(e.v) > 1)
  IN [j \in DOMAIN many |-> Line(kind, many[j].k, Sorted(many[j].v), 0)]

\* Lines 72-74.
OrphanLines(l) ==
  IF l # <<>>
  THEN << Line("orphans_header", "", <<>>, 0),
          Line("orphans", "", Sorted(Range(l)), 0) >>
  ELSE <<>>

\* Lines 58-74.
ReportLines ==
  << Line("header", country_arg, <<>>, 0),
     Line("count_a", "", <<>>, Cardinality(ids_or_names)),
     Line("count_b", "", <<>>, Cardinality(names)),
     Line("names_header", "", <<>>, 0) >>
  \o Listing("name_ids", name_to_ids)
  \o << Line("ids_header", "", <<>>, 0) >>
  \o Listing("id_names", id_to_names)
  \o OrphanLines(no_name_has_id)

\* Lines 58-74, then the interpreter exits with status 0.
Report ==
  /\ pc = "files"
  /\ stdout' = stdout \o ReportLines
  /\ exitcode' = 0
  /\ pc' = "done"
  /\ UNCHANGED <<argv, country_arg, FOLDER_PATH, listed, entry, data, taken, locals, accs,
                 error, matched>>

Next ==
  \/ UsageExit \/ ReadArgs \/ ListDirFails \/ ListDir
  \/ SkipNotJson \/ SkipMalformed \/ LoadFile \/ IterateFails \/ EndOfData
  \/ ElementFails \/ SkipRecord \/ ProcessRecord \/ Report

Spec == Init /\ [][Next]_vars
\* ================================================================ claims
Done == pc = "done"

\* The (key, value) pairs a dict holds.
Pairs(d) == UNION {{<<d[j].k, x>> : x \in d[j].v} : j \in DOMAIN d}

\* No key twice in a dict.
DistinctKeys(d) == \A j, m \in DOMAIN d : d[j].k = d[m].k => j = m

\* The reference definitions, over the records of the target country handled
\* so far.  "Non-empty" is Python truth: None, 0 and "" are empty.
RefNames == {r.name : r \in {x \in matched : Truthy(x.name)}}

RefIdOrName ==
  {v \in {IF Truthy(r.id) THEN r.id ELSE r.name : r \in matched} : Truthy(v)}

RefOrphans ==
  {r.id : r \in {x \in matched : Truthy(x.id) /\ ~Truthy(x.name)}}

RefNameIdPairs ==
  {<<r.name, r.id>> : r \in {x \in matched : Truthy(x.name) /\ Truthy(x.id)}}

Rec(i, n) ==
  [obj |-> TRUE, country |-> [kind |-> "object", title |-> "Vietnam"],
   id |-> i, name |-> n]

\* The scenario of the specification's section 8.
ScenarioRecords ==
  {Rec("1", "Alice"), Rec("2", "Alice"), Rec(None, "Bob"), Rec("3", None)}

\* C1: whenever the aggregation loop is between two records, and so once
\* it has finished, the accumulators equal the reference definition over the
\* records of the target country: set B is the non-empty names, set A the
\* non-empty values (id if id else name), the orphan list holds the ids of
\* the records with an id and no name, name->ids holds the (name, id) pairs
\* of the records with both.  The four scenario records give |A| = 4,
\* |B| = 2, Alice -> {1, 2} and orphans [3].
C1_AccumulatorsEqualReference ==
  /\ names = RefNames
  /\ ids_or_names = RefIdOrName
  /\ Range(no_name_has_id) = RefOrphans
  /\ Pairs(name_to_ids) = RefNameIdPairs
  /\ matched = ScenarioRecords =>
       /\ Cardinality(ids_or_names) = 4
       /\ ids_or_names = {"1", "2", "Bob", "3"}
       /\ Cardinality(names) = 2
       /\ Lookup(name_to_ids, "Alice") = {"1", "2"}
       /\ Sorted(Range(no_name_has_id)) = <<"3">>

C1_Witness ==
  /\ Done
  /\ matched = ScenarioRecords
  /\ Cardinality(ids_or_names) = 4

\* The counts the report printed.
Printed(kind) == {stdout[j].n : j \in {m \in DOMAIN stdout : stdout[m].kind = kind}}

\* C2: the final results depend only on the set of records handled, not on
\* the order of the files or of the records in them: at the end of every
\* run set A, set B, both maps (as key -> set of values), the deduplicated
\* orphan ids and the two reported counts are the values the set of records
\* of the target country determines.
C2_OrderIndependent ==
  Done =>
    /\ ids_or_names = RefIdOrName
    /\ names = RefNames
    /\ DistinctKeys(name_to_ids) /\ DistinctKeys(id_to_names)
    /\ \A n \in NameValues :
         Lookup(name_to_ids, n) = {p[2] : p \in {q \in RefNameIdPairs : q[1] = n}}
    /\ \A i \in IdValues :
         Lookup(id_to_names, i) = {p[1] : p \in {q \in RefNameIdPairs : q[2] = i}}
    /\ Range(no_name_has_id) = RefOrphans
    /\ Printed("count_a") = {Cardinality(RefIdOrName)}
    /\ Printed("count_b") = {Cardinality(RefNames)}

\* Two names under two ids each were entered, Bob before Alice.
C2_Witness ==
  /\ Done
  /\ Len(name_to_ids) = 2
  /\ name_to_ids[1].k = "Bob"
  /\ Cardinality(name_to_ids[1].v) = 2
  /\ Cardinality(name_to_ids[2].v) = 2

\* C10: in every state the two maps are inverses of each other, and they
\* hold a pair exactly when a record of the target country already handled
\* carried that name and that id.
C10_MapsMutuallyInverse ==
  /\ Pairs(id_to_names) = {<<p[2], p[1]>> : p \in Pairs(name_to_ids)}
  /\ Pairs(name_to_ids) =
       {<<r.name, r.id>> : r \in {x \in matched : Truthy(x.name) /\ Truthy(x.id)}}

C10_Witness ==
  /\ pc = "records"
  /\ Lookup(id_to_names, "1") = {"Alice", "Bob"}
  /\ Lookup(name_to_ids, "Alice") = {"1", "2"}
Provenance ==
  /\ names \subseteq {r.name : r \in matched}
  /\ ids_or_names \subseteq {r.id : r \in matched} \cup {r.name : r \in matched}
  /\ Pairs(name_to_ids) \subseteq {<<r.name, r.id>> : r \in matched}
  /\ Pairs(id_to_names) \subseteq {<<r.id, r.name>> : r \in matched}
  /\ Range(no_name_has_id) \subseteq {r.id : r \in matched}

\* C4: a record whose country title is not exactly the target (another
\* case, or no country, or no title) leaves the five accumulators unchanged;
\* hence every value in an accumulator comes from a record whose country
\* title equals the target.
C4_OtherCountryLeavesAccumulators ==
  /\ []Provenance
  /\ [][(pc = "records" /\ pc' = "records" /\ taken' = taken + 1
          /\ country' # country_arg) => UNCHANGED accs]_vars

\* A record titled "vietnam" was read after one of Vietnam had been counted.
C4_Witness ==
  /\ pc = "records"
  /\ country_arg = "Vietnam"
  /\ country = "vietnam"
  /\ taken = 2
  /\ names = {"Alice"}
  /\ ids_or_names = {"1"}

NonArrayKinds == {"object", "string", "number", "null"}

\* C5: a file whose top-level value is not an array contributes no record
\* and does not end the run with an error.
C5_NonArrayIsZeroRecords == ~(pc = "crashed" /\ data \in NonArrayKinds)

\* C6: every record of the target country whose id field is present is
\* counted in set A by its id, whatever the id (0 and "" included); a name
\* is in set A only for a record without an id field.
C6_PresentIdCounted ==
  /\ \A r \in matched : r.id # None => r.id \in ids_or_names
  /\ \A n \in ids_or_names \cap NameValues :
       \E r \in matched : r.name = n /\ r.id = None

LinesOf(kind) == SelectSeq(stdout, LAMBDA l : l.kind = kind)

KeysAscending(ls) ==
  \A j, m \in DOMAIN ls : j < m => Rank(ls[j].key) < Rank(ls[m].key)

ValsAscending(ls) ==
  \A j \in DOMAIN ls :
    \A a, b \in DOMAIN ls[j].vals : a < b => Rank(ls[j].vals[a]) < Rank(ls[j].vals[b])

\* C7: the printed listings are sorted: the lines for names under several
\* ids, and for ids under several names, come in ascending key order with
\* each value list ascending; the orphan line is printed only when an orphan
\* id exists and lists the ids ascending without duplicates.
C7_ListingsSorted ==
  Done =>
    /\ KeysAscending(LinesOf("name_ids")) /\ ValsAscending(LinesOf("name_ids"))
    /\ KeysAscending(LinesOf("id_names")) /\ ValsAscending(LinesOf("id_names"))
    /\ (Len(LinesOf("orphans")) = 1) <=> (no_name_has_id # <<>>)
    /\ (Len(LinesOf("orphans")) = 0) <=> (no_name_has_id = <<>>)
    /\ ValsAscending(LinesOf("orphans"))

\* C8 as stated: set A is at least as large as set B less the distinct
\* orphan ids, and every record that put its name in set B put a value in
\* set A.
C8_SizeBound ==
  /\ Cardinality(ids_or_names) >=
       Cardinality(names) - Cardinality(Range(no_name_has_id))
  /\ \A r \in matched : Truthy(r.name) =>
       r.name \in names /\ (IF Truthy(r.id) THEN r.id ELSE r.name) \in ids_or_names

\* Every name of set B is in set A itself or is under an id of set A.
NamesCovered ==
  \A n \in names :
    n \in ids_or_names \/ Lookup(name_to_ids, n) \cap ids_or_names # {}

\* C8, amended: every record of the target country that adds its name to
\* set B adds, in the same step, one value to set A (its id when it has one,
\* else its name); so every name of set B is in set A or is mapped by
\* name->ids to an id of set A.  No bound on the sizes follows: names that
\* share an id count once in set A.
C8_NamedRecordCountsInA ==
  /\ []NamesCovered
  /\ [][(pc = "records" /\ pc' = "records" /\ taken' = taken + 1
          /\ country' = country_arg /\ Truthy(name')) =>
          /\ name' \in names'
          /\ (IF Truthy(inv_id') THEN inv_id' ELSE name') \in ids_or_names'
       ]_vars

\* Two names under one id: set B holds two values, set A one, no orphan.
C8_Witness ==
  /\ names = {"Alice", "Bob"}
  /\ ids_or_names = {"1"}
  /\ no_name_has_id = <<>>

HasLine(kind) == \E j \in DOMAIN stdout : stdout[j].kind = kind

\* C9: without a country name the run prints the usage message and exits
\* non-zero before anything else happens; with one, and a readable
\* directory, it ends with status 0 after printing the report.
C9_UsageOrReport ==
  /\ (Len(argv) < 2 /\ pc # "args") =>
       /\ pc = "exited" /\ exitcode # 0 /\ HasLine("usage")
       /\ listed = 0 /\ taken = 0 /\ ~HasLine("header")
       /\ names = {} /\ ids_or_names = {} /\ name_to_ids = <<>>
       /\ id_to_names = <<>> /\ no_name_has_id = <<>>
  /\ (Len(argv) >= 2 /\ pc \in {"done", "exited", "crashed"} /\ error # "OSError") =>
       /\ exitcode = 0 /\ HasLine("header") /\ HasLine("count_a")
====
